---- MODULE Spec2Model ----
(***************************************************************************)
(* Neighbour finders of torch_points3d/core/spatial_ops/neighbour_finder.py *)
(* as a state machine: one finder object is constructed, then its          *)
(* find_neighbours is called any number of times.  The search kernels      *)
(* (torch_geometric radius / knn, torch_points_kernels ball_query, faiss)  *)
(* are external: a call to one is recorded with the arguments it receives. *)
(***************************************************************************)
EXTENDS Integers, Sequences, FiniteSets

VARIABLES
    DEBUGGING_VARS,      \* DEBUGGING_VARS["FIND_NEIGHBOUR_DIST"], a module global
    cls,                 \* class of the constructed finder, "none" before construction
    ctor,                \* arguments and outcome of the constructor call
    _radius,             \* self._radius
    _max_num_neighbors,  \* self._max_num_neighbors
    _conv_type,          \* self._conv_type (RadiusNeighbourFinder)
    _dist_meters,        \* self._dist_meters, set = FALSE while the attribute is absent
    k,                   \* self.k
    ncells,              \* self.ncells: <<>> for None, <<v>> for the integer v
    nprobes,             \* self.nprobes
    dilation,            \* self.dilation
    call,                \* arguments of the last find_neighbours call
    frame,               \* locals of FAISSGPUKNNNeighbourFinder.find_neighbours
    pc,                  \* position of the call in progress, "idle" between calls
    ret                  \* outcome of the last finished call

vars == <<DEBUGGING_VARS, cls, ctor, _radius, _max_num_neighbors, _conv_type,
          _dist_meters, k, ncells, nprobes, dilation, call, frame, pc, ret>>

config == <<cls, _radius, _max_num_neighbors, _conv_type, k, ncells, nprobes, dilation>>

None == "None"

----------------------------------------------------------------------------
(* Bounds of the model *)

\* longest radius / max_num_neighbors list given to a constructor
MaxScales == 3
\* largest scale_idx magnitude tried beyond the list ends
ScaleSlack == 2
\* most reference points of a dilated-finder call
MaxPts == 3
\* most query points of a dilated-finder call
MaxQueries == 2
\* most observations a distribution meter records before the model stops calling
MaxObs == 2

Min(a, b) == IF a <= b THEN a ELSE b

----------------------------------------------------------------------------
(* Python values *)

\* a constructor argument that is either a scalar or a python list
Scalar(v) == [list |-> FALSE, v |-> v]
List(s)   == [list |-> TRUE, v |-> s]

\* isinstance(x, list)
isinstance_list(x) == x.list

\* torch_points3d.utils.config.is_list
is_list(x) == x.list

\* bool(s) of a python str: the empty string is falsy
Truthy(s) == Len(s) > 0

\* str.lower() on a string held as its sequence of ASCII codes
lower(s) == [i \in DOMAIN s |-> IF s[i] \in 65..90 THEN s[i] + 32 ELSE s[i]]

\* lst[i] of a python list: "IndexError" outside -len..len-1, negative
\* indices count from the end
InRange(lst, i) == -Len(lst) <= i /\ i < Len(lst)
GetItem(lst, i) == IF i >= 0 THEN lst[i + 1] ELSE lst[Len(lst) + i + 1]

\* ConvolutionFormat.*.value, as ASCII codes
MESSAGE_PASSING == <<109,101,115,115,97,103,101,95,112,97,115,115,105,110,103>>
DENSE == <<100,101,110,115,101>>
PARTIAL_DENSE == <<112,97,114,116,105,97,108,95,100,101,110,115,101>>

----------------------------------------------------------------------------
(* Outcome records *)

\* the _dist_meters attribute was never assigned
NoMeters == [set |-> FALSE, m |-> <<>>]

NoCtor == [radius |-> Scalar(0), max_num_neighbors |-> Scalar(0), exc |-> "none"]

NoCall == [scale_idx |-> 0, batch_x |-> None, batch_y |-> None,
           x |-> <<>>, y |-> <<>>, n_fit |-> 0, B |-> 0]

NoFrame == [gpu |-> "unbound", k |-> -1, ncells |-> -1, p |-> -1,
            cache_cleared |-> FALSE, index |-> "none", searched_k |-> -1]

NoRet == [done |-> FALSE, exc |-> "none", kernel |-> "none", radius |-> 0,
          max_num_neighbors |-> 0, mode |-> <<>>, row |-> <<>>, col |-> <<>>,
          inner_row |-> <<>>, inner_col |-> <<>>]

Raise(e) == [NoRet EXCEPT !.done = TRUE, !.exc = e]

Delegate(kern, r, m, mode) ==
    [NoRet EXCEPT !.done = TRUE, !.kernel = kern, !.radius = r,
                  !.max_num_neighbors = m, !.mode = mode]

----------------------------------------------------------------------------
(* RadiusNeighbourFinder *)

ConvTypes == { MESSAGE_PASSING, DENSE, PARTIAL_DENSE,
               <<77,69,83,83,65,71,69,95,80,65,83,83,73,78,71>>,
               <<68,101,110,115,101>>,
               <<80,65,82,84,73,65,76,95,68,69,78,83,69>>,
               <<115,112,97,114,115,101>>,
               <<>> }

RadiusValues == {1, 2}
MaxNeighborValues == {1, 16, 64}

\* RadiusNeighbourFinder.__init__
RadiusInit ==
    /\ cls = "none" /\ ctor.exc = "none"
    /\ \E r \in RadiusValues, m \in MaxNeighborValues, c \in ConvTypes :
        /\ cls' = "RadiusNeighbourFinder"
        /\ ctor' = [NoCtor EXCEPT !.radius = Scalar(r), !.max_num_neighbors = Scalar(m)]
        /\ _radius' = r
        /\ _max_num_neighbors' = m
        /\ _conv_type' = lower(c)
    /\ UNCHANGED <<DEBUGGING_VARS, _dist_meters, k, ncells, nprobes, dilation,
                   call, frame, pc, ret>>

\* the branch RadiusNeighbourFinder.find_neighbours takes
RadiusDispatch(conv_type) ==
    IF conv_type = MESSAGE_PASSING THEN "radius"
    ELSE IF conv_type = DENSE \/ Truthy(PARTIAL_DENSE) THEN "ball_query"
    ELSE "NotImplementedError"

\* RadiusNeighbourFinder.find_neighbours
RadiusFind ==
    /\ cls = "RadiusNeighbourFinder" /\ pc = "idle"
    /\ \E bx \in {None, "tensor"}, by \in {None, "tensor"} :
        /\ call' = [NoCall EXCEPT !.batch_x = bx, !.batch_y = by]
        /\ LET b == RadiusDispatch(_conv_type) IN
           ret' = IF b = "NotImplementedError" THEN Raise("NotImplementedError")
                  ELSE Delegate(b, _radius, _max_num_neighbors,
                                IF b = "ball_query" THEN _conv_type ELSE <<>>)
    /\ UNCHANGED <<DEBUGGING_VARS, cls, ctor, _radius, _max_num_neighbors, _conv_type,
                   _dist_meters, k, ncells, nprobes, dilation, frame, pc>>

----------------------------------------------------------------------------
(* MultiscaleRadiusNeighbourFinder and DenseRadiusNeighbourFinder *)

\* a constructor argument: the scalar v, or the list [v, v+2, v+3, ...] of n entries
Arg(isList, v, n) ==
    IF isList THEN List([i \in 1..n |-> IF i = 1 THEN v ELSE v + i]) ELSE Scalar(v)

\* what MultiscaleRadiusNeighbourFinder.__init__ leaves on the object, or the
\* error it raises
MSInit(debug, radius, max_num_neighbors) ==
    LET r1 == IF debug /\ ~isinstance_list(radius) THEN List(<<radius.v>>) ELSE radius
        dm == IF debug
              THEN [set |-> TRUE, m |-> [i \in 1..Len(r1.v) |-> [radius |-> r1.v[i], n |-> 0]]]
              ELSE NoMeters
        m0 == IF debug /\ ~isinstance_list(max_num_neighbors)
              THEN List(<<max_num_neighbors.v>>) ELSE max_num_neighbors
        m1 == IF debug THEN List([i \in 1..Len(m0.v) |-> 256]) ELSE m0
        ok(rs, ms) == [exc |-> "none", _radius |-> rs, _max_num_neighbors |-> ms,
                       _dist_meters |-> dm]
    IN  IF ~is_list(m1) /\ is_list(r1)
        THEN ok(r1.v, [i \in 1..Len(r1.v) |-> m1.v])
        ELSE IF ~is_list(r1) /\ is_list(m1)
        THEN ok([i \in 1..Len(m1.v) |-> r1.v], m1.v)
        ELSE IF is_list(m1)
        THEN IF Len(m1.v) # Len(r1.v)
             THEN [exc |-> "ValueError", _radius |-> <<>>, _max_num_neighbors |-> <<>>,
                   _dist_meters |-> dm]
             ELSE ok(r1.v, m1.v)
        ELSE ok(<<r1.v>>, <<m1.v>>)

\* MultiscaleRadiusNeighbourFinder.__init__ (inherited by DenseRadiusNeighbourFinder)
MultiscaleInit ==
    /\ cls = "none" /\ ctor.exc = "none"
    /\ \E c \in {"MultiscaleRadiusNeighbourFinder", "DenseRadiusNeighbourFinder"},
          rl \in BOOLEAN, rn \in 0..MaxScales,
          ml \in BOOLEAN, mn \in 0..MaxScales, mv \in {16, 64} :
        LET r == Arg(rl, 1, rn)
            m == Arg(ml, mv, mn)
            o == MSInit(DEBUGGING_VARS, r, m) IN
        /\ ctor' = [radius |-> r, max_num_neighbors |-> m, exc |-> o.exc]
        /\ IF o.exc = "none"
           THEN /\ cls' = c
                /\ _radius' = o._radius
                /\ _max_num_neighbors' = o._max_num_neighbors
                /\ _dist_meters' = o._dist_meters
           ELSE UNCHANGED <<cls, _radius, _max_num_neighbors, _dist_meters>>
    /\ UNCHANGED <<DEBUGGING_VARS, _conv_type, k, ncells, nprobes, dilation,
                   call, frame, pc, ret>>

\* MultiscaleRadiusNeighbourFinder.num_scales
num_scales == Len(_radius)

ScaleIdxs == (-(MaxScales + ScaleSlack))..(MaxScales + ScaleSlack)

\* the scale_idx test and the two list reads shared by both find_neighbours
ScaleLookup(scale_idx, kern) ==
    IF scale_idx >= num_scales THEN Raise("ValueError")
    ELSE IF ~InRange(_radius, scale_idx) THEN Raise("IndexError")
    ELSE Delegate(kern, GetItem(_radius, scale_idx),
                  GetItem(_max_num_neighbors, scale_idx), <<>>)

\* MultiscaleRadiusNeighbourFinder.find_neighbours
MultiscaleFind ==
    /\ cls = "MultiscaleRadiusNeighbourFinder" /\ pc = "idle"
    /\ \E s \in ScaleIdxs, bx \in {None, "tensor"}, by \in {None, "tensor"} :
        /\ call' = [NoCall EXCEPT !.scale_idx = s, !.batch_x = bx, !.batch_y = by]
        /\ ret' = ScaleLookup(s, "radius")
    /\ UNCHANGED <<DEBUGGING_VARS, cls, ctor, _radius, _max_num_neighbors, _conv_type,
                   _dist_meters, k, ncells, nprobes, dilation, frame, pc>>

\* DenseRadiusNeighbourFinder.find_neighbours: B is neighbours.shape[0]
DenseFind ==
    /\ cls = "DenseRadiusNeighbourFinder" /\ pc = "idle"
    /\ \E s \in ScaleIdxs, B \in 1..2 :
        LET r == ScaleLookup(s, "ball_query") IN
        /\ call' = [NoCall EXCEPT !.scale_idx = s, !.B = B]
        /\ IF r.exc = "none" /\ DEBUGGING_VARS
           THEN IF ~_dist_meters.set
                THEN ret' = Raise("AttributeError") /\ UNCHANGED _dist_meters
                ELSE LET j == IF s >= 0 THEN s + 1 ELSE Len(_dist_meters.m) + s + 1 IN
                     /\ _dist_meters.m[j].n + B <= MaxObs
                     /\ _dist_meters' = [_dist_meters EXCEPT !.m[j].n = @ + B]
                     /\ ret' = r
           ELSE ret' = r /\ UNCHANGED _dist_meters
    /\ UNCHANGED <<DEBUGGING_VARS, cls, ctor, _radius, _max_num_neighbors, _conv_type,
                   k, ncells, nprobes, dilation, frame, pc>>

----------------------------------------------------------------------------
(* FAISSGPUKNNNeighbourFinder *)

\* an optional integer: <<>> is None, <<v>> is the integer v
Some(v) == <<v>>
IsNone(o) == o = <<>>

KValues == {1, 16, 1024, 1025, 3000}
\* x_np.shape[0] of the calls tried
NFitValues == {0, 1, 3, 100, 1024, 1025, 2000000, 2000001, 2000003, 2000012, 4000000}

\* FAISSGPUKNNNeighbourFinder.__init__
FaissInit ==
    /\ cls = "none" /\ ctor.exc = "none"
    /\ \E kk \in KValues, auto \in BOOLEAN, np \in {1, 10} :
        /\ cls' = "FAISSGPUKNNNeighbourFinder"
        /\ k' = kk
        /\ ncells' = IF auto THEN <<>> ELSE Some(100)
        /\ nprobes' = np
    /\ UNCHANGED <<DEBUGGING_VARS, ctor, _radius, _max_num_neighbors, _conv_type,
                   _dist_meters, dilation, call, frame, pc, ret>>

\* the test guarding the NotImplementedError
BatchGuardBoth(batch_x, batch_y) == batch_x # None /\ batch_y # None
BatchGuard(batch_x, batch_y) == batch_x # None \/ batch_y # None

k_max == 1024

\* k = min(self.k, n_fit, k_max)
ClampKNoFit(self_k, n_fit) == Min(self_k, k_max)
ClampK(self_k, n_fit) == Min(self_k, Min(n_fit, k_max))

\* floor(sqrt(n)), by bisection over lo..hi
RECURSIVE Bisect(_, _, _)
Bisect(n, lo, hi) ==
    IF lo = hi THEN lo
    ELSE LET mid == (lo + hi + 1) \div 2 IN
         IF mid * mid <= n THEN Bisect(n, mid, hi) ELSE Bisect(n, lo, mid - 1)
Isqrt(n) == Bisect(n, 0, 46340)

\* np.sqrt(n_fit) in tenths, rounded down
sqrt10(n) == Isqrt(100 * n)

\* np.exp(-m) in thousandths, rounded, for an integer m >= 1
ExpNeg(m) ==
    CASE m = 1 -> 368 [] m = 2 -> 135 [] m = 3 -> 50 [] m = 4 -> 18
      [] m = 5 -> 7   [] m = 6 -> 2   [] m = 7 -> 1  [] OTHER -> 0

Threshold == 2000000

\* the blend weight p, in thousandths
LogisticWeight(n_fit) ==
    IF n_fit > Threshold THEN 1000000 \div (1000 + ExpNeg(n_fit - Threshold))
    ELSE 0

\* ncells = int(p * f1 + (1 - p) * f2), f1 and f2 held in hundredths
AutoNcellsSwapped(n_fit) ==
    LET f1 == 35 * sqrt10(n_fit)
        f2 == 16 * sqrt10(n_fit)
        p  == LogisticWeight(n_fit)
    IN  (p * f2 + (1000 - p) * f1) \div 100000
AutoNcells(n_fit) ==
    LET f1 == 35 * sqrt10(n_fit)
        f2 == 16 * sqrt10(n_fit)
        p  == LogisticWeight(n_fit)
    IN  (p * f1 + (1000 - p) * f2) \div 100000

\* find_neighbours entered: the batch test, then the reshaping of x and y
FaissEnter ==
    /\ cls = "FAISSGPUKNNNeighbourFinder" /\ pc = "idle"
    /\ \E bx \in {None, "tensor"}, by \in {None, "tensor"}, n \in NFitValues :
        /\ call' = [NoCall EXCEPT !.batch_x = bx, !.batch_y = by, !.n_fit = n]
        /\ frame' = NoFrame
        /\ IF BatchGuard(bx, by)
           THEN ret' = Raise("NotImplementedError") /\ pc' = "idle"
           ELSE ret' = NoRet /\ pc' = "init"
    /\ UNCHANGED <<DEBUGGING_VARS, cls, ctor, _radius, _max_num_neighbors, _conv_type,
                   _dist_meters, k, ncells, nprobes, dilation>>

\* gpu = faiss.StandardGpuResources()
FaissAcquire ==
    /\ pc = "init"
    /\ frame' = [frame EXCEPT !.gpu = "held"]
    /\ pc' = "heuristics"
    /\ UNCHANGED <<DEBUGGING_VARS, cls, ctor, _radius, _max_num_neighbors, _conv_type,
                   _dist_meters, k, ncells, nprobes, dilation, call, ret>>

\* the two heuristics: k clamped, ncells computed when self.ncells is None
FaissHeuristicsStore ==
    /\ pc = "heuristics"
    /\ frame' = [frame EXCEPT !.k = ClampK(k, call.n_fit),
                              !.p = IF IsNone(ncells) THEN LogisticWeight(call.n_fit) ELSE -1,
                              !.ncells = IF IsNone(ncells) THEN AutoNcells(call.n_fit)
                                         ELSE ncells[1]]
    /\ ncells' = IF IsNone(ncells) THEN Some(AutoNcells(call.n_fit)) ELSE ncells
    /\ pc' = "empty_cache"
    /\ UNCHANGED <<DEBUGGING_VARS, cls, ctor, _radius, _max_num_neighbors, _conv_type,
                   _dist_meters, k, nprobes, dilation, call, ret>>
FaissHeuristics ==
    /\ pc = "heuristics"
    /\ frame' = [frame EXCEPT !.k = ClampK(k, call.n_fit),
                              !.p = IF IsNone(ncells) THEN LogisticWeight(call.n_fit) ELSE -1,
                              !.ncells = IF IsNone(ncells) THEN AutoNcells(call.n_fit)
                                         ELSE ncells[1]]
    /\ pc' = "empty_cache"
    /\ UNCHANGED <<DEBUGGING_VARS, cls, ctor, _radius, _max_num_neighbors, _conv_type,
                   _dist_meters, k, ncells, nprobes, dilation, call, ret>>

\* torch.cuda.empty_cache()
FaissEmptyCache ==
    /\ pc = "empty_cache"
    /\ frame' = [frame EXCEPT !.cache_cleared = TRUE]
    /\ pc' = "build"
    /\ UNCHANGED <<DEBUGGING_VARS, cls, ctor, _radius, _max_num_neighbors, _conv_type,
                   _dist_meters, k, ncells, nprobes, dilation, call, ret>>

\* quantizer, IndexIVFFlat, index_cpu_to_gpu
FaissBuild ==
    /\ pc = "build"
    /\ frame' = [frame EXCEPT !.index = "built"]
    /\ pc' = "train"
    /\ UNCHANGED <<DEBUGGING_VARS, cls, ctor, _radius, _max_num_neighbors, _conv_type,
                   _dist_meters, k, ncells, nprobes, dilation, call, ret>>

\* gpu_index_flat.train(x_np)
FaissTrain ==
    /\ pc = "train"
    /\ frame' = [frame EXCEPT !.index = "trained"]
    /\ pc' = "add"
    /\ UNCHANGED <<DEBUGGING_VARS, cls, ctor, _radius, _max_num_neighbors, _conv_type,
                   _dist_meters, k, ncells, nprobes, dilation, call, ret>>

\* gpu_index_flat.add(x_np)
FaissAdd ==
    /\ pc = "add"
    /\ frame' = [frame EXCEPT !.index = "filled"]
    /\ pc' = "search"
    /\ UNCHANGED <<DEBUGGING_VARS, cls, ctor, _radius, _max_num_neighbors, _conv_type,
                   _dist_meters, k, ncells, nprobes, dilation, call, ret>>

\* setNumProbes, search, and the return: the frame is dropped, and with it the
\* only references to the index and to the GPU resources
FaissSearch ==
    /\ pc = "search"
    /\ frame' = [frame EXCEPT !.searched_k = frame.k, !.gpu = "released",
                              !.index = "freed"]
    /\ ret' = [NoRet EXCEPT !.done = TRUE, !.kernel = "faiss"]
    /\ pc' = "idle"
    /\ UNCHANGED <<DEBUGGING_VARS, cls, ctor, _radius, _max_num_neighbors, _conv_type,
                   _dist_meters, k, ncells, nprobes, dilation, call>>

\* a faiss call raises (building, training, filling or searching the index).
\* Nothing in find_neighbours catches it or releases gpu: the exception
\* leaves the call with the frame, and so the handle, still referenced by its
\* traceback
FaissRaise ==
    /\ pc \in {"build", "train", "add", "search"}
    /\ ret' = Raise("RuntimeError")
    /\ pc' = "idle"
    /\ UNCHANGED <<DEBUGGING_VARS, cls, ctor, _radius, _max_num_neighbors, _conv_type,
                   _dist_meters, k, ncells, nprobes, dilation, call, frame>>

----------------------------------------------------------------------------
(* KNNNeighbourFinder and DilatedKNNNeighbourFinder *)

DilatedKs == {1, 2}
Dilations == {1, 2}

\* DilatedKNNNeighbourFinder.__init__
DilatedInit ==
    /\ cls = "none" /\ ctor.exc = "none"
    /\ \E kk \in DilatedKs, d \in Dilations :
        /\ cls' = "DilatedKNNNeighbourFinder"
        /\ k' = kk
        /\ dilation' = d
    /\ UNCHANGED <<DEBUGGING_VARS, ctor, _radius, _max_num_neighbors, _conv_type,
                   _dist_meters, ncells, nprobes, call, frame, pc, ret>>

\* self.initialFinder.k
initialFinder_k == k * dilation

Abs(a) == IF a < 0 THEN -a ELSE a

\* the kk reference points nearest to coordinate yq among cands (1-based
\* indices into x), nearest first, ties by index; all of cands when fewer
RECURSIVE Nearest(_, _, _, _)
Nearest(x, cands, yq, kk) ==
    IF kk = 0 \/ cands = {} THEN <<>>
    ELSE LET best == CHOOSE i \in cands : \A j \in cands :
                        \/ Abs(x[i] - yq) < Abs(x[j] - yq)
                        \/ Abs(x[i] - yq) = Abs(x[j] - yq) /\ i <= j
         IN  <<best>> \o Nearest(x, cands \ {best}, yq, kk - 1)

\* torch_geometric knn(x, y, k, batch_x, batch_y): for each query point in
\* turn, the pairs (query index, reference index) of its k nearest reference
\* points of the same batch, fewer when the batch holds fewer
RECURSIVE knn(_, _, _, _, _, _)
knn(x, y, kk, batch_x, batch_y, q) ==
    IF q > Len(y) THEN <<>>
    ELSE LET cands == { i \in 1..Len(x) : batch_x[i] = batch_y[q] }
             near  == Nearest(x, cands, y[q], kk)
         IN  [j \in 1..Len(near) |-> [row |-> q - 1, col |-> near[j] - 1]]
             \o knn(x, y, kk, batch_x, batch_y, q + 1)

\* KNNNeighbourFinder.find_neighbours of self.initialFinder
initialFinder_find_neighbours(x, y, batch_x, batch_y) ==
    knn(x, y, initialFinder_k, batch_x, batch_y, 1)

\* the reference and query sets tried: points on a line, batches contiguous
Points(n, first) == [i \in 1..n |-> first + 2 * (i - 1)]
Batch(n, zeros) == [i \in 1..n |-> IF i <= zeros THEN 0 ELSE 1]

\* DilatedKNNNeighbourFinder.find_neighbours; index is the torch.randint draw
DilatedFind ==
    /\ cls = "DilatedKNNNeighbourFinder" /\ pc = "idle"
    /\ \E nx \in 0..MaxPts, ny \in 0..MaxQueries :
       \E zx \in 0..nx, zy \in 0..ny :
       \E inner \in { initialFinder_find_neighbours(Points(nx, 0), Points(ny, 1),
                                                    Batch(nx, zx), Batch(ny, zy)) } :
       \E index \in [1..(ny * k) -> 0..(k * dilation - 1)] :
        LET flat == [pos \in DOMAIN index |->
                        index[pos] + ((pos - 1) \div k) * (k * dilation)]
            inner_row == [j \in DOMAIN inner |-> inner[j].row]
            inner_col == [j \in DOMAIN inner |-> inner[j].col]
        IN  /\ call' = [NoCall EXCEPT !.x = Points(nx, 0), !.y = Points(ny, 1),
                                      !.batch_x = Batch(nx, zx), !.batch_y = Batch(ny, zy)]
            /\ ret' = IF \E pos \in DOMAIN flat : flat[pos] >= Len(inner)
                      THEN [Raise("IndexError") EXCEPT
                               !.inner_row = inner_row, !.inner_col = inner_col]
                      ELSE [NoRet EXCEPT
                               !.done = TRUE, !.kernel = "knn",
                               !.inner_row = inner_row, !.inner_col = inner_col,
                               !.row = [pos \in DOMAIN flat |-> inner_row[flat[pos] + 1]],
                               !.col = [pos \in DOMAIN flat |-> inner_col[flat[pos] + 1]]]
    /\ UNCHANGED <<DEBUGGING_VARS, cls, ctor, _radius, _max_num_neighbors, _conv_type,
                   _dist_meters, k, ncells, nprobes, dilation, frame, pc>>

----------------------------------------------------------------------------

Init ==
    /\ DEBUGGING_VARS \in BOOLEAN
    /\ cls = "none"
    /\ ctor = NoCtor
    /\ _radius = 0
    /\ _max_num_neighbors = 0
    /\ _conv_type = <<>>
    /\ _dist_meters = NoMeters
    /\ k = 0
    /\ ncells = <<>>
    /\ nprobes = 0
    /\ dilation = 0
    /\ call = NoCall
    /\ frame = NoFrame
    /\ pc = "idle"
    /\ ret = NoRet

Next ==
    \/ RadiusInit
    \/ RadiusFind
    \/ MultiscaleInit
    \/ MultiscaleFind
    \/ DenseFind
    \/ FaissInit
    \/ FaissEnter
    \/ FaissAcquire
    \/ FaissHeuristics
    \/ FaissEmptyCache
    \/ FaissBuild
    \/ FaissTrain
    \/ FaissAdd
    \/ FaissSearch
    \/ FaissRaise

Spec == Init /\ [][Next]_vars

\* the dilated finder on its own
NextDilated ==
    \/ DilatedInit
    \/ DilatedFind

SpecDilated == Init /\ [][NextDilated]_vars

----------------------------------------------------------------------------
(* Properties *)

MultiscaleClasses == {"MultiscaleRadiusNeighbourFinder", "DenseRadiusNeighbourFinder"}

\* a multiscale constructor has run: it produced a finder or raised
MultiscaleConstructed == cls \in MultiscaleClasses \/ ctor.exc = "ValueError"

\* C1: both multiscale finders raise the out-of-bounds ValueError, delegating
\* nothing, for every scale_idx outside 0..num_scales-1 (negative ones
\* included), and delegate with the radius and max_num_neighbors of exactly
\* scale scale_idx for every scale_idx inside it.
C1_ScaleIdxValidated ==
    (cls \in MultiscaleClasses /\ ret.done) =>
        IF 0 <= call.scale_idx /\ call.scale_idx < num_scales
        THEN /\ ret.exc = "none"
             /\ ret.kernel \in {"radius", "ball_query"}
             /\ ret.radius = _radius[call.scale_idx + 1]
             /\ ret.max_num_neighbors = _max_num_neighbors[call.scale_idx + 1]
        ELSE ret.exc = "ValueError" /\ ret.kernel = "none"

\* C2: a RadiusNeighbourFinder whose lower-cased mode is none of
\* message_passing, dense, partial_dense raises NotImplementedError from
\* find_neighbours without reaching a kernel; a recognised mode never raises it.
C2_UnsupportedModeRaises ==
    (cls = "RadiusNeighbourFinder" /\ ret.done) =>
        IF _conv_type \in {MESSAGE_PASSING, DENSE, PARTIAL_DENSE}
        THEN ret.exc = "none"
        ELSE ret.exc = "NotImplementedError" /\ ret.kernel = "none"

\* C3: construction normalises each input shape into two lists of length
\* num_scales: scalar+scalar gives one pair, a list with a scalar broadcasts
\* the scalar, two lists of equal length are kept, two lists of different
\* lengths raise ValueError and produce no finder.
C3_Canonicalization ==
    MultiscaleConstructed =>
        LET r == ctor.radius
            m == ctor.max_num_neighbors
        IN  IF r.list /\ m.list /\ Len(r.v) # Len(m.v)
            THEN ctor.exc = "ValueError" /\ cls = "none"
            ELSE /\ ctor.exc = "none"
                 /\ Len(_radius) = Len(_max_num_neighbors)
                 /\ _radius = IF r.list THEN r.v
                              ELSE IF m.list THEN [i \in 1..Len(m.v) |-> r.v]
                              ELSE <<r.v>>
                 /\ _max_num_neighbors = IF m.list THEN m.v
                                         ELSE IF r.list THEN [i \in 1..Len(r.v) |-> m.v]
                                         ELSE <<m.v>>

\* C4: the dilated finder returns exactly k pairs per query point, and each
\* pair returned for query q is one of the pairs the inner k*dilation finder
\* returned for q, also when q's batch holds fewer than k*dilation points.
C4_DilatedSubset ==
    (cls = "DilatedKNNNeighbourFinder" /\ ret.done) =>
        /\ ret.exc = "none"
        /\ Len(ret.row) = Len(call.y) * k
        /\ \A pos \in DOMAIN ret.row :
            /\ ret.row[pos] = (pos - 1) \div k
            /\ \E j \in DOMAIN ret.inner_row :
                ret.inner_row[j] = ret.row[pos] /\ ret.inner_col[j] = ret.col[pos]

\* C5: a call of the approximate finder with batch_x or batch_y non-null has
\* raised NotImplementedError with no GPU resource acquired, no cache cleared
\* and no index built, trained or queried; with both null it never raises it.
C5_BatchGuardFirst ==
    cls = "FAISSGPUKNNNeighbourFinder" =>
        /\ (call.batch_x # None \/ call.batch_y # None) =>
              /\ pc = "idle"
              /\ ret.exc = "NotImplementedError"
              /\ frame.gpu = "unbound"
              /\ ~frame.cache_cleared
              /\ frame.index = "none"
              /\ frame.searched_k = -1
        /\ (call.batch_x = None /\ call.batch_y = None) =>
              ret.exc # "NotImplementedError"

\* a call with only batch_y given was refused
C5_Witness ==
    /\ cls = "FAISSGPUKNNNeighbourFinder"
    /\ call.batch_x = None /\ call.batch_y = "tensor"
    /\ ret.done /\ ret.exc = "NotImplementedError"

\* C6: for the same constructor arguments a multiscale finder is the same
\* with DEBUGGING_VARS["FIND_NEIGHBOUR_DIST"] on as with it off: construction
\* succeeds or fails alike, the per-scale lists are the same, and
\* find_neighbours searches with the same parameters.
C6_DebugFlagNeutral ==
    MultiscaleConstructed =>
        LET off == MSInit(FALSE, ctor.radius, ctor.max_num_neighbors) IN
        /\ ctor.exc = off.exc
        /\ cls # "none" =>
              /\ _radius = off._radius
              /\ _max_num_neighbors = off._max_num_neighbors
              /\ (ret.done /\ ret.exc = "none") =>
                    /\ ret.radius = GetItem(off._radius, call.scale_idx)
                    /\ ret.max_num_neighbors =
                          GetItem(off._max_num_neighbors, call.scale_idx)

\* C7: no approximate-finder call ends, by returning or by raising, with the
\* GPU resource handle it acquired still held.
C7_ReleasedOnEveryExit ==
    (cls = "FAISSGPUKNNNeighbourFinder" /\ pc = "idle" /\ ret.done) =>
        frame.gpu # "held"

\* nc is num/den * sqrt(n), rounded down, give or take one cell
Roughly(nc, num, den, n) ==
    /\ (den * nc) * (den * nc) <= num * num * n
    /\ num * num * n < (den * (nc + 2)) * (den * (nc + 2))

C9_ClampedK ==
    (cls = "FAISSGPUKNNNeighbourFinder" /\ frame.k # -1) =>
        /\ frame.k <= k /\ frame.k <= call.n_fit /\ frame.k <= 1024
        /\ frame.k = k \/ frame.k = call.n_fit \/ frame.k = 1024
        /\ frame.searched_k # -1 => frame.searched_k = frame.k
        /\ ret.kernel = "faiss" => frame.searched_k # -1

\* a search ran with k cut down to the number of reference points
C9_Witness ==
    /\ cls = "FAISSGPUKNNNeighbourFinder"
    /\ ret.kernel = "faiss"
    /\ call.n_fit < k /\ call.n_fit < 1024
    /\ frame.searched_k = call.n_fit

\* C10: once a finder is constructed no step of any find_neighbours call,
\* returning or raising, changes its configuration (class, per-scale lists,
\* mode, k, ncells, nprobes, dilation), and a multiscale finder's two lists
\* have equal length.
C10_ConfigFrozen ==
    /\ [][cls # "none" => config' = config]_vars
    /\ [](cls \in MultiscaleClasses => Len(_radius) = Len(_max_num_neighbors))

\* an approximate finder searched with an automatic cell count and still has
\* ncells unset
C10_Witness ==
    /\ cls = "FAISSGPUKNNNeighbourFinder"
    /\ ret.kernel = "faiss"
    /\ IsNone(ncells)
    /\ frame.ncells > 0

====
